---- MODULE Spec2Model ----
(***************************************************************************)
(* A model of the fracdex package (fractional indexing over base 62).      *)
(*                                                                         *)
(* A Go string is modelled as a sequence of byte codes, so that the        *)
(* comparison operators of Go on strings (byte-wise lexicographic order)   *)
(* and strings.Index on the alphabet are computed, not assumed.            *)
(* A Go (value, error) pair is a record [key, err]; err = "nil" is the nil *)
(* error, err = "panic" is a run-time panic (index out of range), and any  *)
(* other err is the text of the error returned.                            *)
(***************************************************************************)
EXTENDS Integers, Sequences, FiniteSets

\* ------------------------------------------------------------------------
\* Bounds of the model
\* ------------------------------------------------------------------------

\* longest fractional part of an input key
MaxFracLen == 2

\* longest input string of a direct call of midpoint / midpointJitter
MaxMidLen == 2

\* largest jitterRange passed to the jittered entry points
MaxJitterRange == 2

\* largest n passed to NKeysBetween
MaxN == 3

\* largest distance, either way, passed to KeyAfterJitter and KeyBeforeJitter
MaxDistance == 2

\* the width of int in bits; Go's int has 32 or 64, the arithmetic wraps the
\* same way at every width
IntBits == 8

\* ------------------------------------------------------------------------
\* Strings
\* ------------------------------------------------------------------------

\* const base62Digits: the byte codes of "0-9", "A-Z", "a-z"
base62Digits ==
  << 48, 49, 50, 51, 52, 53, 54, 55, 56, 57,
     65, 66, 67, 68, 69, 70, 71, 72, 73, 74, 75, 76, 77,
     78, 79, 80, 81, 82, 83, 84, 85, 86, 87, 88, 89, 90,
     97, 98, 99, 100, 101, 102, 103, 104, 105, 106, 107, 108, 109,
     110, 111, 112, 113, 114, 115, 116, 117, 118, 119, 120, 121, 122 >>

\* len(base62Digits), the number of digits
Base == 62

\* base62Digits[i] for an index i that is in range (Go indexes from 0)
DigitAt(i) == base62Digits[i + 1]

\* whether base62Digits[i] is in range (otherwise Go panics)
InRange(i) == i \in 0 .. (Base - 1)

\* strings.Index(base62Digits, string(c)): the position of c, or -1
Index(c) ==
  IF \E i \in 1 .. Base : base62Digits[i] = c
  THEN (CHOOSE i \in 1 .. Base : base62Digits[i] = c) - 1
  ELSE -1

\* the byte '0'
ChZero == 48
\* the byte '1'
ChOne == 49
\* the byte 'A'
ChUpA == 65
\* the byte 'Z'
ChUpZ == 90
\* the byte 'a'
ChLowA == 97
\* the byte 'z'
ChLowZ == 122

\* s[k:] of Go: s without its first k bytes
Drop(s, k) == SubSeq(s, k + 1, Len(s))

\* s[0:k] of Go
Take(s, k) == SubSeq(s, 1, k)

\* the string of k copies of c
Repeat(c, k) == [i \in 1 .. k |-> c]

Min(x, y) == IF x < y THEN x ELSE y
Max(x, y) == IF x > y THEN x ELSE y

\* s < t of Go: byte-wise lexicographic order
StrLess(s, t) ==
  \E k \in 1 .. (Min(Len(s), Len(t)) + 1) :
    /\ \A i \in 1 .. (k - 1) : s[i] = t[i]
    /\ \/ k > Len(s) /\ k <= Len(t)
       \/ k <= Len(s) /\ k <= Len(t) /\ s[k] < t[k]

\* strings.HasSuffix(f, "0")
HasSuffixZero(f) == Len(f) > 0 /\ f[Len(f)] = ChZero

\* const smallestInt = "A00000000000000000000000000"
smallestInt == <<ChUpA>> \o Repeat(ChZero, 26)

\* const zero = "a0"
zero == <<ChLowA, ChZero>>

\* results of a call: (key, nil), ("", err)
Ok(k) == [key |-> k, err |-> "nil"]
Fail(e) == [key |-> <<>>, err |-> e]

\* the one-character strings of the bytes ' ' (32) to '_' (95), as the %s
\* verb of fmt prints them
asciiStrings ==
  <<" ", "!", "\"", "#", "$", "%", "&", "'", "(", ")", "*", "+",
    ",", "-", ".", "/", "0", "1", "2", "3", "4", "5", "6", "7",
    "8", "9", ":", ";", "<", "=", ">", "?", "@", "A", "B", "C",
    "D", "E", "F", "G", "H", "I", "J", "K", "L", "M", "N", "O",
    "P", "Q", "R", "S", "T", "U", "V", "W", "X", "Y", "Z", "[",
    "\\", "]", "^", "_">>

\* the one-character strings of the bytes 'a' (97) to '~' (126)
asciiLowerStrings ==
  <<"a", "b", "c", "d", "e", "f", "g", "h", "i", "j", "k", "l",
    "m", "n", "o", "p", "q", "r", "s", "t", "u", "v", "w", "x",
    "y", "z", "{", "|", "}", "~">>

\* string(c) of a printable byte c other than the grave accent (96)
byteString(c) ==
  IF c <= 95 THEN asciiStrings[c - 31] ELSE asciiLowerStrings[c - 96]

\* the text fmt's %s prints for the Go string s
RECURSIVE Str(_)
Str(s) == IF s = <<>> THEN "" ELSE byteString(s[1]) \o Str(Tail(s))

\* ------------------------------------------------------------------------
\* The integer codec
\* ------------------------------------------------------------------------

\* getIntLen(head): [len, err]
getIntLen(head) ==
  IF head >= ChLowA /\ head <= ChLowZ
  THEN [len |-> head - ChLowA + 2, err |-> "nil"]
  ELSE IF head >= ChUpA /\ head <= ChUpZ
       THEN [len |-> ChUpZ - head + 2, err |-> "nil"]
       ELSE [len |-> 0, err |-> "invalid order key head: " \o byteString(head)]

\* validateInt(i): the error, "nil" when i has the length its head declares
validateInt(i) ==
  LET exp == getIntLen(i[1])
  IN  IF exp.err # "nil" THEN exp.err
      ELSE IF Len(i) # exp.len THEN "invalid integer part of order key: " \o Str(i)
           ELSE "nil"

\* getIntPart(key), for a non-empty key
getIntPart(key) ==
  LET intPartLen == getIntLen(key[1])
  IN  IF intPartLen.err # "nil" THEN Fail(intPartLen.err)
      ELSE IF intPartLen.len > Len(key) THEN Fail("invalid order key: " \o Str(key))
           ELSE Ok(Take(key, intPartLen.len))

\* validateOrderKey without the test for the reserved smallestInt
validateOrderKeyNoSentinel(key) ==
  LET i == getIntPart(key)
  IN  IF i.err # "nil" THEN i.err
      ELSE IF HasSuffixZero(Drop(key, Len(i.key)))
           THEN "invalid order key: " \o Str(key)
           ELSE "nil"

\* validateOrderKey(key), for a non-empty key: the error, or "nil"
validateOrderKey(key) ==
  IF key = smallestInt THEN "invalid order key: " \o Str(key)
  ELSE LET i == getIntPart(key)
       IN  IF i.err # "nil" THEN i.err
           ELSE IF HasSuffixZero(Drop(key, Len(i.key)))
                THEN "invalid order key: " \o Str(key)
                ELSE "nil"

\* the carry loop that leaves a digit it carries out of as it is
RECURSIVE incLoopNoReset(_, _)
incLoopNoReset(digs, i) ==
  IF i = 0 THEN [digs |-> digs, carry |-> TRUE]
  ELSE LET d == Index(digs[i]) + 1
       IN  IF d = Base
           THEN incLoopNoReset(digs, i - 1)
           ELSE [digs |-> [digs EXCEPT ![i] = DigitAt(d)], carry |-> FALSE]

\* the carry loop of incrementInt over digs, from position i down to 1:
\* [digs, carry]
RECURSIVE incLoop(_, _)
incLoop(digs, i) ==
  IF i = 0 THEN [digs |-> digs, carry |-> TRUE]
  ELSE LET d == Index(digs[i]) + 1
       IN  IF d = Base
           THEN incLoop([digs EXCEPT ![i] = ChZero], i - 1)
           ELSE [digs |-> [digs EXCEPT ![i] = DigitAt(d)], carry |-> FALSE]

\* incrementInt without the case of head 'Z', whose successor is "a0"
incrementIntNoZ(x) ==
  IF validateInt(x) # "nil" THEN Fail(validateInt(x))
  ELSE LET head == x[1]
           r    == incLoop(Tail(x), Len(x) - 1)
       IN  IF r.carry
           THEN IF head = ChLowZ THEN Ok(<<>>)
                ELSE LET h == head + 1
                     IN  IF h > ChLowA
                         THEN Ok(<<h>> \o Append(r.digs, ChZero))
                         ELSE Ok(<<h>> \o Tail(r.digs))
           ELSE Ok(<<head>> \o r.digs)

\* incrementInt(x): ("", nil) is the overflow signal
incrementInt(x) ==
  IF validateInt(x) # "nil" THEN Fail(validateInt(x))
  ELSE LET head == x[1]
           r    == incLoop(Tail(x), Len(x) - 1)
       IN  IF r.carry
           THEN IF head = ChUpZ THEN Ok(<<ChLowA, ChZero>>)
                ELSE IF head = ChLowZ THEN Ok(<<>>)
                ELSE LET h == head + 1
                     IN  IF h > ChLowA
                         THEN Ok(<<h>> \o Append(r.digs, ChZero))
                         ELSE Ok(<<h>> \o Tail(r.digs))
           ELSE Ok(<<head>> \o r.digs)

\* the borrow loop that leaves a digit it borrows from as it is
RECURSIVE decLoopNoReset(_, _)
decLoopNoReset(digs, i) ==
  IF i = 0 THEN [digs |-> digs, borrow |-> TRUE, panic |-> FALSE]
  ELSE LET d == Index(digs[i]) - 1
       IN  IF d = -1
           THEN decLoopNoReset(digs, i - 1)
           ELSE IF ~InRange(d)
                THEN [digs |-> digs, borrow |-> FALSE, panic |-> TRUE]
                ELSE [digs |-> [digs EXCEPT ![i] = DigitAt(d)],
                      borrow |-> FALSE, panic |-> FALSE]

\* the borrow loop of decrementInt over digs, from position i down to 1:
\* [digs, borrow, panic]; base62Digits[d] with d < -1 is out of range
RECURSIVE decLoop(_, _)
decLoop(digs, i) ==
  IF i = 0 THEN [digs |-> digs, borrow |-> TRUE, panic |-> FALSE]
  ELSE LET d == Index(digs[i]) - 1
       IN  IF d = -1
           THEN decLoop([digs EXCEPT ![i] = DigitAt(Base - 1)], i - 1)
           ELSE IF ~InRange(d)
                THEN [digs |-> digs, borrow |-> FALSE, panic |-> TRUE]
                ELSE [digs |-> [digs EXCEPT ![i] = DigitAt(d)],
                      borrow |-> FALSE, panic |-> FALSE]

\* decrementInt(x): ("", nil) is the underflow signal
decrementInt(x) ==
  IF validateInt(x) # "nil" THEN Fail(validateInt(x))
  ELSE LET head == x[1]
           r    == decLoop(Tail(x), Len(x) - 1)
       IN  IF r.panic THEN Fail("panic")
           ELSE IF r.borrow
           THEN IF head = ChLowA THEN Ok(<<ChUpZ, DigitAt(Base - 1)>>)
                ELSE IF head = ChUpA THEN Ok(<<>>)
                ELSE LET h == head - 1
                     IN  IF h < ChUpZ
                         THEN Ok(<<h>> \o Append(r.digs, DigitAt(Base - 1)))
                         ELSE Ok(<<h>> \o Tail(r.digs))
           ELSE Ok(<<head>> \o r.digs)

\* ------------------------------------------------------------------------
\* The midpoint engine
\* ------------------------------------------------------------------------

\* prefix + r, for the result r of a recursive call (a panic unwinds)
Cat(prefix, r) == IF r.err # "nil" THEN r ELSE Ok(prefix \o r.key)

\* the common-prefix loop without the padding of a: it stops where a ends
commonPrefixNoPad(a, b) ==
  LET diff == {k \in 1 .. Len(b) : k > Len(a) \/ a[k] # b[k]}
  IN  IF diff = {} THEN Len(b)
      ELSE (CHOOSE k \in diff : \A m \in diff : k <= m) - 1

\* the loop that removes the longest common prefix: the number i of leading
\* bytes of b that equal those of a, a padded with '0'
commonPrefix(a, b) ==
  LET c(k) == IF Len(a) >= k THEN a[k] ELSE ChZero
      diff == {k \in 1 .. Len(b) : c(k) # b[k]}
  IN  IF diff = {} THEN Len(b)
      ELSE (CHOOSE k \in diff : \A m \in diff : k <= m) - 1

\* a midpoint digit one too high: it can reach digitB itself
RoundHalfOffByOne(s) == (s \div 2) + 1

\* int(math.Round(0.5 * float64(s))): halves round away from zero
RoundHalf(s) == IF s >= 0 THEN (s + 1) \div 2 ELSE -((1 - s) \div 2)

\* digitA, digitB of midpoint and midpointJitter
digitOfA(a) == IF a # <<>> THEN Index(a[1]) ELSE 0
digitOfB(b) == IF b # <<>> THEN Index(b[1]) ELSE Base

\* string(base62Digits[i]), or the panic of an index out of range
DigitString(i) == IF InRange(i) THEN Ok(<<DigitAt(i)>>) ELSE Fail("panic")

\* midpoint without the return of b[0:1] when the first digits are
\* consecutive and b has more digits: it always extends a
RECURSIVE midpointNoShortcut(_, _)
midpointNoShortcut(a, b) ==
  LET i == commonPrefix(a, b)
  IN  IF b # <<>> /\ i > 0
      THEN IF i > Len(a)
           THEN Cat(Take(b, i), midpointNoShortcut(<<>>, Drop(b, i)))
           ELSE Cat(Take(b, i), midpointNoShortcut(Drop(a, i), Drop(b, i)))
      ELSE LET digitA == digitOfA(a)
               digitB == digitOfB(b)
           IN  IF digitB - digitA > 1
               THEN DigitString(RoundHalf(digitA + digitB))
               ELSE LET sa == IF Len(a) > 0 THEN Tail(a) ELSE <<>>
                        da == DigitString(digitA)
                    IN  IF da.err # "nil" THEN da
                        ELSE Cat(da.key, midpointNoShortcut(sa, <<>>))

\* midpoint(a, b)
RECURSIVE midpoint(_, _)
midpoint(a, b) ==
  LET i == commonPrefix(a, b)
  IN  IF b # <<>> /\ i > 0
      THEN IF i > Len(a)
           THEN Cat(Take(b, i), midpoint(<<>>, Drop(b, i)))
           ELSE Cat(Take(b, i), midpoint(Drop(a, i), Drop(b, i)))
      ELSE LET digitA == digitOfA(a)
               digitB == digitOfB(b)
           IN  IF digitB - digitA > 1
               THEN DigitString(RoundHalf(digitA + digitB))
               ELSE IF Len(b) > 1
                    THEN Ok(Take(b, 1))
                    ELSE LET sa == IF Len(a) > 0 THEN Tail(a) ELSE <<>>
                             da == DigitString(digitA)
                         IN  IF da.err # "nil" THEN da
                             ELSE Cat(da.key, midpoint(sa, <<>>))

\* the number of nested calls of midpoint(a, b), the first one included
RECURSIVE midpointDepth(_, _)
midpointDepth(a, b) ==
  LET i == commonPrefix(a, b)
  IN  IF b # <<>> /\ i > 0
      THEN IF i > Len(a)
           THEN 1 + midpointDepth(<<>>, Drop(b, i))
           ELSE 1 + midpointDepth(Drop(a, i), Drop(b, i))
      ELSE IF digitOfB(b) - digitOfA(a) > 1 THEN 1
           ELSE IF Len(b) > 1 THEN 1
                ELSE 1 + midpointDepth(IF Len(a) > 0 THEN Tail(a) ELSE <<>>,
                                       <<>>)

\* ------------------------------------------------------------------------
\* The jitter sources
\* ------------------------------------------------------------------------

\* the two implementations of the Jitter interface
Sources == {"NoJitter", "RandJitter"}

\* the int that x wraps to in two's complement
wrapInt(x) == ((x + (2 ^ (IntBits - 1))) % (2 ^ IntBits)) - (2 ^ (IntBits - 1))

\* R.Intn(n): the values of [0, n); it panics when n <= 0, and returns none
Intn(n) == 0 .. (n - 1)

\* j.IntnRange(min, max): the set of values the call can return, empty when
\* it panics. NoJitter returns 0; RandJitter returns min when max <= min
\* and min + R.Intn(max-min+1) otherwise.
IntnRange(j, min, max) ==
  IF j = "NoJitter" THEN {0}
  ELSE IF max < min THEN {min}
       ELSE IF max = min THEN {min}
            ELSE {wrapInt(min + k) : k \in Intn(wrapInt(max - min + 1))}

\* the interior-room case without the clamp of lo and hi to the interior
jitterInteriorUnclamped(digitA, digitB, j, jitterRange) ==
  LET interior == digitB - digitA - 1
      center   == digitA + 1 + (interior \div 2)
  IN  UNION { UNION {
        LET lo == center - o1
            hi == center + o2
        IN  IF hi > lo
            THEN {DigitString(pick) : pick \in IntnRange(j, lo, hi)}
            ELSE {DigitString(lo)}
        : o2 \in IntnRange(j, 0, jitterRange) }
        : o1 \in IntnRange(j, 0, jitterRange) }

\* the interior-room case with a window one digit step too wide below
jitterInteriorWide(digitA, digitB, j, jitterRange) ==
  LET interior == digitB - digitA - 1
      center   == digitA + 1 + (interior \div 2)
  IN  UNION { UNION {
        LET lo == Max(digitA + 1, center - o1 - 1)
            hi == Min(digitB - 1, center + o2)
        IN  IF hi > lo
            THEN {DigitString(pick) : pick \in IntnRange(j, lo, hi)}
            ELSE {DigitString(lo)}
        : o2 \in IntnRange(j, 0, jitterRange) }
        : o1 \in IntnRange(j, 0, jitterRange) }

\* the interior-room case of midpointJitter: the results over all draws
jitterInterior(digitA, digitB, j, jitterRange) ==
  LET interior == digitB - digitA - 1
      center   == digitA + 1 + (interior \div 2)
  IN  UNION { UNION {
        LET lo == Max(digitA + 1, center - o1)
            hi == Min(digitB - 1, center + o2)
        IN  IF hi > lo
            THEN {DigitString(pick) : pick \in IntnRange(j, lo, hi)}
            ELSE {DigitString(lo)}
        : o2 \in IntnRange(j, 0, jitterRange) }
        : o1 \in IntnRange(j, 0, jitterRange) }

\* the adjacent-digit case of midpointJitter (len(b) > 1)
jitterAdjacent(b, j, jitterRange) ==
  LET head  == b[1]
      upper == Index(b[2]) - 1
      low   == 0
      high  == upper
  IN  IF high < low THEN {Ok(Take(b, 1))}
      ELSE LET picks == IF high >= 1
                        THEN IntnRange(j, 1, Min(high, 1 + jitterRange))
                        ELSE {1}
           IN  {Cat(<<head>>, DigitString(pickIdx)) : pickIdx \in picks}

\* midpointJitter(a, b, j, jitterRange): the set of results over all draws of j
RECURSIVE midpointJitter(_, _, _, _)
midpointJitter(a, b, j, jitterRange) ==
  LET i == commonPrefix(a, b)
  IN  IF b # <<>> /\ i > 0
      THEN IF i > Len(a)
           THEN {Cat(Take(b, i), r) :
                   r \in midpointJitter(<<>>, Drop(b, i), j, jitterRange)}
           ELSE {Cat(Take(b, i), r) :
                   r \in midpointJitter(Drop(a, i), Drop(b, i), j, jitterRange)}
      ELSE LET digitA == digitOfA(a)
               digitB == digitOfB(b)
           IN  IF digitB - digitA > 1
               THEN jitterInterior(digitA, digitB, j, jitterRange)
               ELSE IF Len(b) > 1
                    THEN jitterAdjacent(b, j, jitterRange)
                    ELSE LET sa == IF Len(a) > 0 THEN Tail(a) ELSE <<>>
                             da == DigitString(digitA)
                         IN  IF da.err # "nil" THEN {da}
                             ELSE {Cat(da.key, r) :
                                     r \in midpointJitter(sa, <<>>, j, jitterRange)}

\* ------------------------------------------------------------------------
\* The key API
\* ------------------------------------------------------------------------

\* the validation with the range test a > b: equal bounds pass
validateBoundsStrict(a, b) ==
  IF a # <<>> /\ validateOrderKey(a) # "nil" THEN validateOrderKey(a)
  ELSE IF b # <<>> /\ validateOrderKey(b) # "nil" THEN validateOrderKey(b)
       ELSE IF a # <<>> /\ b # <<>> /\ StrLess(b, a)
            THEN Str(a) \o " >= " \o Str(b)
            ELSE "nil"

\* the validation both entry points start with: the error, or "nil"
validateBounds(a, b) ==
  IF a # <<>> /\ validateOrderKey(a) # "nil" THEN validateOrderKey(a)
  ELSE IF b # <<>> /\ validateOrderKey(b) # "nil" THEN validateOrderKey(b)
       ELSE IF a # <<>> /\ b # <<>> /\ ~StrLess(a, b)
            THEN Str(a) \o " >= " \o Str(b)
            ELSE "nil"

\* KeyBetween that never increments the integer part of a when b is empty:
\* it always extends the fractional part of a
KeyBetweenNoIncrement(a, b) ==
  IF validateBounds(a, b) # "nil" THEN Fail(validateBounds(a, b))
  ELSE IF a = <<>>
  THEN IF b = <<>> THEN Ok(zero)
       ELSE LET ib == getIntPart(b)
                fb == Drop(b, Len(ib.key))
            IN  IF ib.err # "nil" THEN Fail(ib.err)
                ELSE IF ib.key = smallestInt
                     THEN Cat(ib.key, midpoint(<<>>, fb))
                     ELSE IF StrLess(ib.key, b) THEN Ok(ib.key)
                          ELSE LET res == decrementInt(ib.key)
                               IN  IF res.err # "nil" THEN Fail(res.err)
                                   ELSE IF res.key = <<>>
                                        THEN Fail("range underflow")
                                        ELSE Ok(res.key)
  ELSE IF b = <<>>
  THEN LET ia == getIntPart(a)
           fa == Drop(a, Len(ia.key))
           i  == incrementInt(ia.key)
       IN  IF ia.err # "nil" THEN Fail(ia.err)
           ELSE IF i.err # "nil" THEN Fail(i.err)
                ELSE Cat(ia.key, midpoint(fa, <<>>))
  ELSE LET ia == getIntPart(a)
           fa == Drop(a, Len(ia.key))
           ib == getIntPart(b)
           fb == Drop(b, Len(ib.key))
           i  == incrementInt(ia.key)
       IN  IF ia.err # "nil" THEN Fail(ia.err)
           ELSE IF ib.err # "nil" THEN Fail(ib.err)
           ELSE IF ia.key = ib.key THEN Cat(ia.key, midpoint(fa, fb))
           ELSE IF i.err # "nil" THEN Fail(i.err)
           ELSE IF i.key = <<>> THEN Fail("range overflow")
           ELSE IF StrLess(i.key, b) THEN Ok(i.key)
           ELSE Cat(ia.key, midpoint(fa, <<>>))

\* KeyBetween that, given two bounds of different integer parts, returns the
\* integer part after a's without comparing it with b
KeyBetweenNoFallback(a, b) ==
  IF validateBounds(a, b) # "nil" THEN Fail(validateBounds(a, b))
  ELSE IF a = <<>>
  THEN IF b = <<>> THEN Ok(zero)
       ELSE LET ib == getIntPart(b)
                fb == Drop(b, Len(ib.key))
            IN  IF ib.err # "nil" THEN Fail(ib.err)
                ELSE IF ib.key = smallestInt
                     THEN Cat(ib.key, midpoint(<<>>, fb))
                     ELSE IF StrLess(ib.key, b) THEN Ok(ib.key)
                          ELSE LET res == decrementInt(ib.key)
                               IN  IF res.err # "nil" THEN Fail(res.err)
                                   ELSE IF res.key = <<>>
                                        THEN Fail("range underflow")
                                        ELSE Ok(res.key)
  ELSE IF b = <<>>
  THEN LET ia == getIntPart(a)
           fa == Drop(a, Len(ia.key))
           i  == incrementInt(ia.key)
       IN  IF ia.err # "nil" THEN Fail(ia.err)
           ELSE IF i.err # "nil" THEN Fail(i.err)
                ELSE IF i.key = <<>> THEN Cat(ia.key, midpoint(fa, <<>>))
                     ELSE Ok(i.key)
  ELSE LET ia == getIntPart(a)
           fa == Drop(a, Len(ia.key))
           ib == getIntPart(b)
           fb == Drop(b, Len(ib.key))
           i  == incrementInt(ia.key)
       IN  IF ia.err # "nil" THEN Fail(ia.err)
           ELSE IF ib.err # "nil" THEN Fail(ib.err)
           ELSE IF ia.key = ib.key THEN Cat(ia.key, midpoint(fa, fb))
           ELSE IF i.err # "nil" THEN Fail(i.err)
           ELSE IF i.key = <<>> THEN Fail("range overflow")
           ELSE Ok(i.key)

\* KeyBetween that fails when b is empty and the integer part of a is the
\* largest, as it does when b is given
KeyBetweenOverflowing(a, b) ==
  IF validateBounds(a, b) # "nil" THEN Fail(validateBounds(a, b))
  ELSE IF a = <<>>
  THEN IF b = <<>> THEN Ok(zero)
       ELSE LET ib == getIntPart(b)
                fb == Drop(b, Len(ib.key))
            IN  IF ib.err # "nil" THEN Fail(ib.err)
                ELSE IF ib.key = smallestInt
                     THEN Cat(ib.key, midpoint(<<>>, fb))
                     ELSE IF StrLess(ib.key, b) THEN Ok(ib.key)
                          ELSE LET res == decrementInt(ib.key)
                               IN  IF res.err # "nil" THEN Fail(res.err)
                                   ELSE IF res.key = <<>>
                                        THEN Fail("range underflow")
                                        ELSE Ok(res.key)
  ELSE IF b = <<>>
  THEN LET ia == getIntPart(a)
           fa == Drop(a, Len(ia.key))
           i  == incrementInt(ia.key)
       IN  IF ia.err # "nil" THEN Fail(ia.err)
           ELSE IF i.err # "nil" THEN Fail(i.err)
                ELSE IF i.key = <<>> THEN Fail("range overflow")
                     ELSE Ok(i.key)
  ELSE LET ia == getIntPart(a)
           fa == Drop(a, Len(ia.key))
           ib == getIntPart(b)
           fb == Drop(b, Len(ib.key))
           i  == incrementInt(ia.key)
       IN  IF ia.err # "nil" THEN Fail(ia.err)
           ELSE IF ib.err # "nil" THEN Fail(ib.err)
           ELSE IF ia.key = ib.key THEN Cat(ia.key, midpoint(fa, fb))
           ELSE IF i.err # "nil" THEN Fail(i.err)
           ELSE IF i.key = <<>> THEN Fail("range overflow")
           ELSE IF StrLess(i.key, b) THEN Ok(i.key)
           ELSE Cat(ia.key, midpoint(fa, <<>>))

\* KeyBetween that, b being empty and the integer part of a the largest,
\* extends a itself instead of its integer part
KeyBetweenLongFallback(a, b) ==
  IF validateBounds(a, b) # "nil" THEN Fail(validateBounds(a, b))
  ELSE IF a = <<>>
  THEN IF b = <<>> THEN Ok(zero)
       ELSE LET ib == getIntPart(b)
                fb == Drop(b, Len(ib.key))
            IN  IF ib.err # "nil" THEN Fail(ib.err)
                ELSE IF ib.key = smallestInt
                     THEN Cat(ib.key, midpoint(<<>>, fb))
                     ELSE IF StrLess(ib.key, b) THEN Ok(ib.key)
                          ELSE LET res == decrementInt(ib.key)
                               IN  IF res.err # "nil" THEN Fail(res.err)
                                   ELSE IF res.key = <<>>
                                        THEN Fail("range underflow")
                                        ELSE Ok(res.key)
  ELSE IF b = <<>>
  THEN LET ia == getIntPart(a)
           fa == Drop(a, Len(ia.key))
           i  == incrementInt(ia.key)
       IN  IF ia.err # "nil" THEN Fail(ia.err)
           ELSE IF i.err # "nil" THEN Fail(i.err)
                ELSE IF i.key = <<>> THEN Cat(a, midpoint(fa, <<>>))
                     ELSE Ok(i.key)
  ELSE LET ia == getIntPart(a)
           fa == Drop(a, Len(ia.key))
           ib == getIntPart(b)
           fb == Drop(b, Len(ib.key))
           i  == incrementInt(ia.key)
       IN  IF ia.err # "nil" THEN Fail(ia.err)
           ELSE IF ib.err # "nil" THEN Fail(ib.err)
           ELSE IF ia.key = ib.key THEN Cat(ia.key, midpoint(fa, fb))
           ELSE IF i.err # "nil" THEN Fail(i.err)
           ELSE IF i.key = <<>> THEN Fail("range overflow")
           ELSE IF StrLess(i.key, b) THEN Ok(i.key)
           ELSE Cat(ia.key, midpoint(fa, <<>>))

\* KeyBetween(a, b)
KeyBetween(a, b) ==
  IF validateBounds(a, b) # "nil" THEN Fail(validateBounds(a, b))
  ELSE IF a = <<>>
  THEN IF b = <<>> THEN Ok(zero)
       ELSE LET ib == getIntPart(b)
                fb == Drop(b, Len(ib.key))
            IN  IF ib.err # "nil" THEN Fail(ib.err)
                ELSE IF ib.key = smallestInt
                     THEN Cat(ib.key, midpoint(<<>>, fb))
                     ELSE IF StrLess(ib.key, b) THEN Ok(ib.key)
                          ELSE LET res == decrementInt(ib.key)
                               IN  IF res.err # "nil" THEN Fail(res.err)
                                   ELSE IF res.key = <<>>
                                        THEN Fail("range underflow")
                                        ELSE Ok(res.key)
  ELSE IF b = <<>>
  THEN LET ia == getIntPart(a)
           fa == Drop(a, Len(ia.key))
           i  == incrementInt(ia.key)
       IN  IF ia.err # "nil" THEN Fail(ia.err)
           ELSE IF i.err # "nil" THEN Fail(i.err)
                ELSE IF i.key = <<>> THEN Cat(ia.key, midpoint(fa, <<>>))
                     ELSE Ok(i.key)
  ELSE LET ia == getIntPart(a)
           fa == Drop(a, Len(ia.key))
           ib == getIntPart(b)
           fb == Drop(b, Len(ib.key))
           i  == incrementInt(ia.key)
       IN  IF ia.err # "nil" THEN Fail(ia.err)
           ELSE IF ib.err # "nil" THEN Fail(ib.err)
           ELSE IF ia.key = ib.key THEN Cat(ia.key, midpoint(fa, fb))
           ELSE IF i.err # "nil" THEN Fail(i.err)
           ELSE IF i.key = <<>> THEN Fail("range overflow")
           ELSE IF StrLess(i.key, b) THEN Ok(i.key)
           ELSE Cat(ia.key, midpoint(fa, <<>>))

\* keyBetweenInternal(a, b, j, jitterRange): the set of results over all
\* draws of j
keyBetweenInternal(a, b, j, jitterRange) ==
  IF validateBounds(a, b) # "nil" THEN {Fail(validateBounds(a, b))}
  ELSE IF a = <<>>
  THEN IF b = <<>> THEN {Ok(zero)}
       ELSE LET ib == getIntPart(b)
                fb == Drop(b, Len(ib.key))
            IN  IF ib.err # "nil" THEN {Fail(ib.err)}
                ELSE IF ib.key = smallestInt
                     THEN {Cat(ib.key, r) :
                             r \in midpointJitter(<<>>, fb, j, jitterRange)}
                     ELSE IF StrLess(ib.key, b) THEN {Ok(ib.key)}
                          ELSE LET res == decrementInt(ib.key)
                               IN  IF res.err # "nil" THEN {Fail(res.err)}
                                   ELSE IF res.key = <<>>
                                        THEN {Fail("range underflow")}
                                        ELSE {Ok(res.key)}
  ELSE IF b = <<>>
  THEN LET ia == getIntPart(a)
           fa == Drop(a, Len(ia.key))
           i  == incrementInt(ia.key)
       IN  IF ia.err # "nil" THEN {Fail(ia.err)}
           ELSE IF i.err # "nil" THEN {Fail(i.err)}
                ELSE IF i.key = <<>>
                     THEN {Cat(ia.key, r) :
                             r \in midpointJitter(fa, <<>>, j, jitterRange)}
                     ELSE {Ok(i.key)}
  ELSE LET ia == getIntPart(a)
           fa == Drop(a, Len(ia.key))
           ib == getIntPart(b)
           fb == Drop(b, Len(ib.key))
           i  == incrementInt(ia.key)
       IN  IF ia.err # "nil" THEN {Fail(ia.err)}
           ELSE IF ib.err # "nil" THEN {Fail(ib.err)}
           ELSE IF ia.key = ib.key
                THEN {Cat(ia.key, r) :
                        r \in midpointJitter(fa, fb, j, jitterRange)}
           ELSE IF i.err # "nil" THEN {Fail(i.err)}
           ELSE IF i.key = <<>> THEN {Fail("range overflow")}
           ELSE IF StrLess(i.key, b) THEN {Ok(i.key)}
           ELSE {Cat(ia.key, r) :
                   r \in midpointJitter(fa, <<>>, j, jitterRange)}

\* KeyBetweenJitter(a, b, j, jitterRange)
KeyBetweenJitter(a, b, j, jitterRange) ==
  keyBetweenInternal(a, b, j, jitterRange)

\* results of NKeysBetween: (keys, nil), (nil, err)
OkKeys(ks) == [keys |-> ks, err |-> "nil"]
FailKeys(e) == [keys |-> <<>>, err |-> e]

\* a reverse that leaves the slice as it is
reverseNot(values) == values

\* reverse(values)
reverse(values) == [i \in 1 .. Len(values) |-> values[Len(values) - i + 1]]

\* the loop of NKeysBetween for b = "": k more keys, each above the last c
RECURSIVE chainUp(_, _, _)
chainUpStep(result, next, k) ==
  IF next.err # "nil" THEN FailKeys(next.err)
  ELSE chainUp(Append(result, next.key), next.key, k - 1)

chainUp(result, c, k) ==
  IF k = 0 THEN OkKeys(result)
  ELSE chainUpStep(result, KeyBetween(c, <<>>), k)

\* the loop of NKeysBetween for a = "": k more keys, each below the last c
RECURSIVE chainDown(_, _, _)
chainDownStep(result, next, k) ==
  IF next.err # "nil" THEN FailKeys(next.err)
  ELSE chainDown(Append(result, next.key), next.key, k - 1)

chainDown(result, c, k) ==
  IF k = 0 THEN OkKeys(result)
  ELSE chainDownStep(result, KeyBetween(<<>>, c), k)

\* reverse(result) of the keys of a successful chain
reversed(r) == IF r.err # "nil" THEN r ELSE OkKeys(reverse(r.keys))

\* result = left ++ [c] ++ right, unless a half failed
joinHalves(left, c, right) ==
  IF left.err # "nil" THEN left
  ELSE IF right.err # "nil" THEN right
       ELSE OkKeys(left.keys \o <<c>> \o right.keys)

\* NKeysBetween(a, b, n), c the result of its first call KeyBetween(a, b)
RECURSIVE NKeysBetween(_, _, _)
nKeysFrom(a, b, n, c) ==
  IF c.err # "nil" THEN FailKeys(c.err)
  ELSE IF n = 1 THEN OkKeys(<<c.key>>)
  ELSE IF b = <<>> THEN chainUp(<<c.key>>, c.key, n - 1)
  ELSE IF a = <<>> THEN reversed(chainDown(<<c.key>>, c.key, n - 1))
  ELSE joinHalves(NKeysBetween(a, c.key, n \div 2),
                  c.key,
                  NKeysBetween(c.key, b, n - (n \div 2) - 1))

\* NKeysBetween that validates the bounds before it looks at n
NKeysBetweenValidating(a, b, n) ==
  IF validateBounds(a, b) # "nil" THEN FailKeys(validateBounds(a, b))
  ELSE IF n = 0 THEN OkKeys(<<>>)
       ELSE nKeysFrom(a, b, n, KeyBetween(a, b))

\* NKeysBetween(a, b, n)
NKeysBetween(a, b, n) ==
  IF n = 0 THEN OkKeys(<<>>)
  ELSE nKeysFrom(a, b, n, KeyBetween(a, b))

\* the loop of NKeysBetweenJitter for b = "": the results over all draws
RECURSIVE chainUpJitter(_, _, _, _, _)
chainUpJitterStep(result, next, k, j, jitterRange) ==
  IF next.err # "nil" THEN {FailKeys(next.err)}
  ELSE chainUpJitter(Append(result, next.key), next.key, k - 1, j, jitterRange)

chainUpJitter(result, c, k, j, jitterRange) ==
  IF k = 0 THEN {OkKeys(result)}
  ELSE UNION {chainUpJitterStep(result, next, k, j, jitterRange) :
                next \in KeyBetweenJitter(c, <<>>, j, jitterRange)}

\* the loop of NKeysBetweenJitter for a = "": the results over all draws
RECURSIVE chainDownJitter(_, _, _, _, _)
chainDownJitterStep(result, next, k, j, jitterRange) ==
  IF next.err # "nil" THEN {FailKeys(next.err)}
  ELSE chainDownJitter(Append(result, next.key), next.key, k - 1, j, jitterRange)

chainDownJitter(result, c, k, j, jitterRange) ==
  IF k = 0 THEN {OkKeys(result)}
  ELSE UNION {chainDownJitterStep(result, next, k, j, jitterRange) :
                next \in KeyBetweenJitter(<<>>, c, j, jitterRange)}

\* out = left ++ [c] ++ right for every result right of the second half,
\* which is not computed when the first half failed
joinRight(left, c, rights) ==
  IF left.err # "nil" THEN {left}
  ELSE {joinHalves(left, c, right) : right \in rights}

\* NKeysBetweenJitter(a, b, n, j, jitterRange), c one result of its first
\* call KeyBetweenJitter(a, b, j, jitterRange): the results over all draws
RECURSIVE NKeysBetweenJitter(_, _, _, _, _)
nKeysJitterFrom(a, b, n, c, j, jitterRange) ==
  IF c.err # "nil" THEN {FailKeys(c.err)}
  ELSE IF n = 1 THEN {OkKeys(<<c.key>>)}
  ELSE IF b = <<>>
       THEN chainUpJitter(<<c.key>>, c.key, n - 1, j, jitterRange)
  ELSE IF a = <<>>
       THEN {reversed(r) :
               r \in chainDownJitter(<<c.key>>, c.key, n - 1, j, jitterRange)}
  ELSE UNION {joinRight(left, c.key,
                        NKeysBetweenJitter(c.key, b, n - (n \div 2) - 1,
                                           j, jitterRange)) :
                left \in NKeysBetweenJitter(a, c.key, n \div 2,
                                            j, jitterRange)}

\* NKeysBetweenJitter(a, b, n, j, jitterRange): the results over all draws
NKeysBetweenJitter(a, b, n, j, jitterRange) ==
  IF n = 0 THEN {OkKeys(<<>>)}
  ELSE UNION {nKeysJitterFrom(a, b, n, c, j, jitterRange) :
                c \in KeyBetweenJitter(a, b, j, jitterRange)}

\* ------------------------------------------------------------------------
\* The revision of the jitter file that defines KeyAfterJitter
\* ------------------------------------------------------------------------

\* keyBetweenInternal(a, b, j, jitterRange) of that revision: the set of
\* results over all draws of j. A jitterRange of 0 goes to KeyBetween; with
\* b empty the incremented integer part gets a jittered digit appended;
\* with both bounds given an error of incrementInt becomes "range overflow"
\* and its carry-out "" is not tested.
keyBetweenInternalBypass(a, b, j, jitterRange) ==
  IF jitterRange = 0 THEN {KeyBetween(a, b)}
  ELSE IF validateBounds(a, b) # "nil" THEN {Fail(validateBounds(a, b))}
  ELSE IF a = <<>>
  THEN IF b = <<>> THEN {Ok(zero)}
       ELSE LET ib == getIntPart(b)
                fb == Drop(b, Len(ib.key))
            IN  IF ib.err # "nil" THEN {Fail(ib.err)}
                ELSE IF ib.key = smallestInt
                     THEN {Cat(ib.key, r) :
                             r \in midpointJitter(<<>>, fb, j, jitterRange)}
                     ELSE IF StrLess(ib.key, b) THEN {Ok(ib.key)}
                          ELSE LET res == decrementInt(ib.key)
                               IN  IF res.err # "nil" THEN {Fail(res.err)}
                                   ELSE IF res.key = <<>>
                                        THEN {Fail("range underflow")}
                                        ELSE {Ok(res.key)}
  ELSE IF b = <<>>
  THEN LET ia == getIntPart(a)
           fa == Drop(a, Len(ia.key))
           i  == incrementInt(ia.key)
       IN  IF ia.err # "nil" THEN {Fail(ia.err)}
           ELSE IF i.err # "nil" THEN {Fail(i.err)}
                ELSE IF i.key = <<>>
                     THEN {Cat(ia.key, r) :
                             r \in midpointJitter(fa, <<>>, j, jitterRange)}
                     ELSE {Cat(i.key, r) :
                             r \in midpointJitter(<<>>, <<>>, j, jitterRange)}
  ELSE LET ia == getIntPart(a)
           fa == Drop(a, Len(ia.key))
           ib == getIntPart(b)
           fb == Drop(b, Len(ib.key))
           i  == incrementInt(ia.key)
       IN  IF ia.err # "nil" THEN {Fail(ia.err)}
           ELSE IF ib.err # "nil" THEN {Fail(ib.err)}
           ELSE IF ia.key = ib.key
                THEN {Cat(ia.key, r) :
                        r \in midpointJitter(fa, fb, j, jitterRange)}
           ELSE IF i.err # "nil" THEN {Fail("range overflow")}
           ELSE IF StrLess(i.key, b) THEN {Ok(i.key)}
           ELSE {Cat(ia.key, r) :
                   r \in midpointJitter(fa, <<>>, j, jitterRange)}

\* KeyBetweenJitter(a, b, j, jitterRange) of that revision
KeyBetweenJitterBypass(a, b, j, jitterRange) ==
  keyBetweenInternalBypass(a, b, j, jitterRange)

\* results of KeyAfterJitter, with the keys its loop went through: the key
\* and no error, or "" and the error
OkAfter(k, trail) == [key |-> k, err |-> "nil", keys |-> trail]
FailAfter(e, trail) == [key |-> <<>>, err |-> e, keys |-> trail]

\* fmt.Errorf("failed to move <way> %d steps: %w", i+1, err); a panic is
\* not wrapped
stepError(way, i, e) ==
  IF e = "panic" THEN e
  ELSE "failed to move " \o way \o " " \o byteString(ChZero + i + 1)
         \o " steps: " \o e

\* the loop of KeyAfterJitter for distance > 0, from its iteration i on
RECURSIVE moveForward(_, _, _, _, _, _)
moveForwardStep(next, trail, i, steps, j, jitterRange) ==
  IF next.err # "nil" THEN {FailAfter(stepError("forward", i, next.err), trail)}
  ELSE moveForward(next.key, Append(trail, next.key), i + 1, steps,
                   j, jitterRange)

moveForward(result, trail, i, steps, j, jitterRange) ==
  IF ~(i < steps) THEN {OkAfter(result, trail)}
  ELSE UNION {moveForwardStep(next, trail, i, steps, j, jitterRange) :
                next \in KeyBetweenJitterBypass(result, <<>>, j, jitterRange)}

\* the loop of KeyAfterJitter for distance < 0, from its iteration i on
RECURSIVE moveBackward(_, _, _, _, _, _)
moveBackwardStep(next, trail, i, steps, j, jitterRange) ==
  IF next.err # "nil" THEN {FailAfter(stepError("backward", i, next.err), trail)}
  ELSE moveBackward(next.key, Append(trail, next.key), i + 1, steps,
                    j, jitterRange)

moveBackward(result, trail, i, steps, j, jitterRange) ==
  IF ~(i < steps) THEN {OkAfter(result, trail)}
  ELSE UNION {moveBackwardStep(next, trail, i, steps, j, jitterRange) :
                next \in KeyBetweenJitterBypass(<<>>, result, j, jitterRange)}

\* KeyAfterJitter(key, distance, j, jitterRange): the set of results over
\* all draws of j; -distance wraps as Go's int does
KeyAfterJitter(key, distance, j, jitterRange) ==
  IF distance = 0 THEN {OkAfter(key, <<>>)}
  ELSE IF key = <<>>
       THEN {FailAfter("cannot compute distance from empty key", <<>>)}
  ELSE IF validateOrderKey(key) # "nil"
       THEN {FailAfter(validateOrderKey(key), <<>>)}
  ELSE IF distance > 0
       THEN moveForward(key, <<>>, 0, distance, j, jitterRange)
       ELSE moveBackward(key, <<>>, 0, wrapInt(0 - distance), j, jitterRange)

\* KeyBeforeJitter(key, distance, j, jitterRange)
KeyBeforeJitter(key, distance, j, jitterRange) ==
  KeyAfterJitter(key, wrapInt(0 - distance), j, jitterRange)

\* ------------------------------------------------------------------------
\* Float64Approx
\* ------------------------------------------------------------------------

\* A float64 is modelled by the rational number the arithmetic computes,
\* an integer number of units Base^(-FracScale); rounding is not modelled.
FracScale == MaxFracLen

\* math.Pow(x, y) for natural numbers
RECURSIVE Pow(_, _)
Pow(x, y) == IF y = 0 THEN 1 ELSE x * Pow(x, y - 1)

\* the number x in units
Units(x) == x * Pow(Base, FracScale)

\* results of Float64Approx: (rv, nil), (0.0, err)
OkFloat(x) == [rv |-> x, err |-> "nil"]
FailFloat(e) == [rv |-> 0, err |-> e]

\* the digits read first to last: the first digit gets the weight 1
intDigitForward(digs, i) == digs[i + 1]

\* d := digs[len(digs)-i-1], the digit of weight Base^i (digs counts from 1
\* here)
intDigitAt(digs, i) == digs[Len(digs) - i]

\* the first loop of Float64Approx from round i on: rv and whether a digit
\* outside the alphabet was met
RECURSIVE intLoop(_, _, _)
intLoop(digs, i, x) ==
  IF i >= Len(digs) THEN [rv |-> x, bad |-> FALSE]
  ELSE LET p == Index(intDigitAt(digs, i))
       IN  IF p = -1 THEN [rv |-> 0, bad |-> TRUE]
           ELSE intLoop(digs, i + 1, x + Units(Pow(Base, i) * p))

\* the second loop of Float64Approx from byte i (counted from 0) of fp on
RECURSIVE fracLoop(_, _, _)
fracLoop(fp, i, x) ==
  IF i >= Len(fp) THEN [rv |-> x, bad |-> FALSE]
  ELSE LET p == Index(fp[i + 1])
       IN  IF p = -1 THEN [rv |-> 0, bad |-> TRUE]
           ELSE fracLoop(fp, i + 1, x + (Units(p) \div Pow(Base, i + 1)))

\* if head < "a" { rv *= -1 }
signed(head, x) == IF head < ChLowA THEN x * (-1) ELSE x

\* Float64Approx after the first loop
floatFrac(key, ip, r) ==
  IF r.bad THEN FailFloat("invalid key: " \o Str(key))
  ELSE OkFloat(signed(ip[1], r.rv))

\* Float64Approx after validation, ip the integer part, r the outcome of
\* the loop over its digits
floatInt(key, ip, r) ==
  IF r.bad THEN FailFloat("invalid order key: " \o Str(key))
  ELSE floatFrac(key, ip, fracLoop(Drop(key, Len(ip)), 0, r.rv))

\* Float64Approx(key)
Float64Approx(key) ==
  IF key = <<>> THEN FailFloat("invalid order key")
  ELSE IF validateOrderKey(key) # "nil" THEN FailFloat(validateOrderKey(key))
  ELSE floatInt(key, getIntPart(key).key,
                intLoop(Tail(getIntPart(key).key), 0, 0))

\* ------------------------------------------------------------------------
\* The inputs of the model
\* ------------------------------------------------------------------------

\* all strings over the characters S of length at most n
Strings(S, n) == UNION {[1 .. k -> S] : k \in 0 .. n}

\* the digits input fractional parts are made of: '0', '1', '2'
FracDigits == {ChZero, ChOne, DigitAt(2)}

\* fractional parts of the last digit and of a byte outside the alphabet:
\* "z", "!"
OtherFracs == {<<ChLowZ>>, <<33>>}

\* the fractional parts of input keys (trailing '0' included: invalid keys)
Fracs == Strings(FracDigits, MaxFracLen) \cup OtherFracs

\* the integer part with this head, its digits all fill but the last
IntPart(head, fill, last) ==
  <<head>> \o Repeat(fill, getIntLen(head).len - 2) \o <<last>>

\* the heads of input keys: 'A', 'Y', 'Z', 'a', 'b', 'z'
Heads == {ChUpA, DigitAt(34), ChUpZ, ChLowA, DigitAt(37), ChLowZ}

\* the integer parts of input keys, the extremes of each length among them
IntParts ==
  {IntPart(h, f, l) : h \in Heads, f \in {ChZero, ChLowZ},
                      l \in {ChZero, ChOne, ChLowZ}}

\* the largest integer part, "zzzzzzzzzzzzzzzzzzzzzzzzzzz"
largestInt == IntPart(ChLowZ, ChLowZ, ChLowZ)

\* the integer parts that input keys extend with every fractional part
FracInts == {zero, smallestInt, largestInt}

\* strings that are no keys: "0" (no head), "b0" (shorter than 'b' declares)
Malformed == {<<ChZero>>, <<DigitAt(37), ChZero>>}

\* keys of every integer part, alone or followed by "1"
IntKeys == {ip \o f : ip \in IntParts, f \in {<<>>, <<ChOne>>}}

\* the input pairs (a, b) of the key API
KeyPairs ==
  {<<ip \o fa, ip \o fb>> : ip \in FracInts, fa \in Fracs, fb \in Fracs }
  \cup ((IntKeys \cup Malformed \cup {<<>>}) \X (IntKeys \cup Malformed \cup {<<>>}))
  \cup {<<<<>>, ip \o f>> : ip \in FracInts, f \in Fracs}
  \cup {<<ip \o f, <<>>>> : ip \in FracInts, f \in Fracs}

\* the input pairs (a, b) of direct calls of the midpoint engine
MidPairs ==
  (Strings(FracDigits, MaxMidLen) \cup OtherFracs)
    \X (Strings(FracDigits, MaxMidLen) \cup OtherFracs)

\* ------------------------------------------------------------------------
\* The state machine: one call of one entry point on one input
\* ------------------------------------------------------------------------

VARIABLES
  a,            \* the lower bound passed
  b,            \* the upper bound passed
  op,           \* the entry point called, "none" before the call
  j,            \* the jitter source passed
  jitterRange,  \* the jitterRange passed
  n,            \* the n passed
  key,          \* the key returned
  keys,         \* the keys returned (KeyAfterJitter: the keys its loop made)
  rv,           \* the number returned, in units of Base^(-FracScale)
  rangeMin,     \* the min passed to IntnRange
  rangeMax,     \* the max passed to IntnRange
  drawn,        \* the value IntnRange returned
  distance,     \* the distance passed
  err           \* the error returned: its text ("nil": none, "panic": a panic)

vars ==
  <<a, b, op, j, jitterRange, n, key, keys, rv, rangeMin, rangeMax, drawn,
    distance, err>>

Init ==
  /\ \E p \in KeyPairs \cup MidPairs : a = p[1] /\ b = p[2]
  /\ op = "none"
  /\ j = "NoJitter"
  /\ jitterRange = 0
  /\ n = 0
  /\ key = <<>>
  /\ keys = <<>>
  /\ rv = 0
  /\ rangeMin = 0
  /\ rangeMax = 0
  /\ drawn = 0
  /\ distance = 0
  /\ err = "nil"

\* midpoint(a, b)
CallMidpoint ==
  /\ op = "none"
  /\ op' = "midpoint"
  /\ \E res \in {midpoint(a, b)} :
       key' = res.key /\ err' = res.err
  /\ UNCHANGED <<a, b, j, jitterRange, n, keys, rv,
                 rangeMin, rangeMax, drawn, distance>>

\* midpointJitter(a, b, src, r)
CallMidpointJitter ==
  /\ op = "none"
  /\ \E src \in Sources, r \in 0 .. MaxJitterRange :
       \E res \in midpointJitter(a, b, src, r) :
         /\ op' = "midpointJitter"
         /\ j' = src
         /\ jitterRange' = r
         /\ key' = res.key
         /\ err' = res.err
  /\ UNCHANGED <<a, b, n, keys, rv,
                 rangeMin, rangeMax, drawn, distance>>

\* KeyBetween(a, b)
CallKeyBetween ==
  /\ op = "none"
  /\ op' = "KeyBetween"
  /\ \E res \in {KeyBetween(a, b)} :
       key' = res.key /\ err' = res.err
  /\ UNCHANGED <<a, b, j, jitterRange, n, keys, rv,
                 rangeMin, rangeMax, drawn, distance>>

\* KeyBetweenJitter(a, b, src, r)
CallKeyBetweenJitter ==
  /\ op = "none"
  /\ \E src \in Sources, r \in 0 .. MaxJitterRange :
       \E res \in KeyBetweenJitter(a, b, src, r) :
         /\ op' = "KeyBetweenJitter"
         /\ j' = src
         /\ jitterRange' = r
         /\ key' = res.key
         /\ err' = res.err
  /\ UNCHANGED <<a, b, n, keys, rv,
                 rangeMin, rangeMax, drawn, distance>>

\* NKeysBetween(a, b, k)
CallNKeysBetween ==
  /\ op = "none"
  /\ \E k \in 0 .. MaxN :
       /\ op' = "NKeysBetween"
       /\ n' = k
       /\ \E res \in {NKeysBetween(a, b, k)} :
            keys' = res.keys /\ err' = res.err
  /\ UNCHANGED <<a, b, j, jitterRange, key, rv,
                 rangeMin, rangeMax, drawn, distance>>

Next ==
  \/ CallMidpoint
  \/ CallMidpointJitter
  \/ CallKeyBetween
  \/ CallKeyBetweenJitter
  \/ CallNKeysBetween

Spec == Init /\ [][Next]_vars

\* ------------------------------------------------------------------------
\* Calls of the deterministic key API alone
\* ------------------------------------------------------------------------

InitKeyApi ==
  /\ \E p \in KeyPairs : a = p[1] /\ b = p[2]
  /\ op = "none"
  /\ j = "NoJitter"
  /\ jitterRange = 0
  /\ n = 0
  /\ key = <<>>
  /\ keys = <<>>
  /\ rv = 0
  /\ rangeMin = 0
  /\ rangeMax = 0
  /\ drawn = 0
  /\ distance = 0
  /\ err = "nil"

NextKeyApi ==
  \/ CallKeyBetween
  \/ CallNKeysBetween

SpecKeyApi == InitKeyApi /\ [][NextKeyApi]_vars

\* ------------------------------------------------------------------------
\* Calls of the midpoint engine alone
\* ------------------------------------------------------------------------

InitMidpoint ==
  /\ \E p \in MidPairs : a = p[1] /\ b = p[2]
  /\ op = "none"
  /\ j = "NoJitter"
  /\ jitterRange = 0
  /\ n = 0
  /\ key = <<>>
  /\ keys = <<>>
  /\ rv = 0
  /\ rangeMin = 0
  /\ rangeMax = 0
  /\ drawn = 0
  /\ distance = 0
  /\ err = "nil"

NextMidpoint ==
  \/ CallMidpoint
  \/ CallMidpointJitter

SpecMidpoint == InitMidpoint /\ [][NextMidpoint]_vars

\* ------------------------------------------------------------------------
\* Calls of NKeysBetweenJitter
\* ------------------------------------------------------------------------

\* keys given to NKeysBetweenJitter as a bound beside those of one integer
\* part: none, "Zz", "a0", "a1", "b00"
JitterBounds ==
  {<<>>, <<ChUpZ, ChLowZ>>, zero, <<ChLowA, ChOne>>,
   <<DigitAt(37), ChZero, ChZero>>}

\* the input pairs (a, b) of NKeysBetweenJitter
JitterPairs ==
  {<<zero \o fa, zero \o fb>> : fa \in Fracs, fb \in Fracs}
  \cup (JitterBounds \X JitterBounds)

InitNKeysJitter ==
  /\ \E p \in JitterPairs : a = p[1] /\ b = p[2]
  /\ op = "none"
  /\ j = "NoJitter"
  /\ jitterRange = 0
  /\ n = 0
  /\ key = <<>>
  /\ keys = <<>>
  /\ rv = 0
  /\ rangeMin = 0
  /\ rangeMax = 0
  /\ drawn = 0
  /\ distance = 0
  /\ err = "nil"

\* NKeysBetweenJitter(a, b, k, src, r)
CallNKeysBetweenJitter ==
  /\ op = "none"
  /\ \E k \in 0 .. MaxN, src \in Sources, r \in 0 .. MaxJitterRange :
       \E res \in NKeysBetweenJitter(a, b, k, src, r) :
         /\ op' = "NKeysBetweenJitter"
         /\ n' = k
         /\ j' = src
         /\ jitterRange' = r
         /\ keys' = res.keys
         /\ err' = res.err
  /\ UNCHANGED <<a, b, key, rv,
                 rangeMin, rangeMax, drawn, distance>>

NextNKeysJitter == CallNKeysBetweenJitter

SpecNKeysJitter == InitNKeysJitter /\ [][NextNKeysJitter]_vars

\* ------------------------------------------------------------------------
\* Calls of NKeysBetween and NKeysBetweenJitter on the same bounds
\* ------------------------------------------------------------------------

NextNKeys ==
  \/ CallNKeysBetween
  \/ CallNKeysBetweenJitter

SpecNKeys == InitNKeysJitter /\ [][NextNKeys]_vars

\* ------------------------------------------------------------------------
\* Calls of KeyAfterJitter and KeyBeforeJitter
\* ------------------------------------------------------------------------

\* the keys given to KeyAfterJitter: every integer part of the model, the
\* smallest, "a0" and the largest with every fractional part, and ""
AfterKeys ==
  IntParts \cup {ip \o f : ip \in FracInts, f \in Fracs} \cup {<<>>}

\* the distances given: the short ones, and the least int
Distances == ((0 - MaxDistance) .. MaxDistance) \cup {0 - (2 ^ (IntBits - 1))}

InitKeyAfter ==
  /\ a \in AfterKeys
  /\ b = <<>>
  /\ op = "none"
  /\ j = "NoJitter"
  /\ jitterRange = 0
  /\ n = 0
  /\ key = <<>>
  /\ keys = <<>>
  /\ rv = 0
  /\ rangeMin = 0
  /\ rangeMax = 0
  /\ drawn = 0
  /\ distance = 0
  /\ err = "nil"

\* KeyAfterJitter(a, d, src, r); keys records the keys its loop went through
CallKeyAfterJitter ==
  /\ op = "none"
  /\ \E d \in Distances, src \in Sources, r \in 0 .. MaxJitterRange :
       \E res \in KeyAfterJitter(a, d, src, r) :
         /\ op' = "KeyAfterJitter"
         /\ distance' = d
         /\ j' = src
         /\ jitterRange' = r
         /\ key' = res.key
         /\ keys' = res.keys
         /\ err' = res.err
  /\ UNCHANGED <<a, b, n, rv, rangeMin, rangeMax, drawn>>

\* KeyBeforeJitter(a, d, src, r)
CallKeyBeforeJitter ==
  /\ op = "none"
  /\ \E d \in Distances, src \in Sources, r \in 0 .. MaxJitterRange :
       \E res \in KeyBeforeJitter(a, d, src, r) :
         /\ op' = "KeyBeforeJitter"
         /\ distance' = d
         /\ j' = src
         /\ jitterRange' = r
         /\ key' = res.key
         /\ keys' = res.keys
         /\ err' = res.err
  /\ UNCHANGED <<a, b, n, rv, rangeMin, rangeMax, drawn>>

NextKeyAfter ==
  \/ CallKeyAfterJitter
  \/ CallKeyBeforeJitter

SpecKeyAfter == InitKeyAfter /\ [][NextKeyAfter]_vars

\* ------------------------------------------------------------------------
\* Calls of the integer codec on one string
\* ------------------------------------------------------------------------

\* heads of the strings given to the codec: 'A', 'B', 'Y', 'Z', 'a', 'b',
\* 'y', 'z'
CodecHeads ==
  {ChUpA, DigitAt(11), DigitAt(34), ChUpZ,
   ChLowA, DigitAt(37), DigitAt(60), ChLowZ}

\* first bytes that are no letter: '!', '0', '@', '[', '_', '{'
NonLetters == {33, ChZero, ChUpA - 1, ChUpZ + 1, ChLowA - 2, ChLowZ + 1}

\* well-formed integer parts: the extremes of each length, and the
\* integer parts next to a carry or a borrow
CodecInts ==
  {IntPart(h, f, l) : h \in CodecHeads, f \in {ChZero, ChLowZ},
                      l \in {ChZero, ChOne, ChLowZ}}

\* the strings given to the codec: keys of every integer part, integer
\* parts cut short by one byte, and strings that start with no letter
CodecKeys ==
  {ip \o f : ip \in CodecInts, f \in Fracs}
  \cup {Take(ip, Len(ip) - 1) : ip \in CodecInts}
  \cup {<<h>> \o f : h \in NonLetters, f \in Fracs}

InitCodec ==
  /\ a \in CodecKeys
  /\ b = <<>>
  /\ op = "none"
  /\ j = "NoJitter"
  /\ jitterRange = 0
  /\ n = 0
  /\ key = <<>>
  /\ keys = <<>>
  /\ rv = 0
  /\ rangeMin = 0
  /\ rangeMax = 0
  /\ drawn = 0
  /\ distance = 0
  /\ err = "nil"

\* validateOrderKey(a)
CallValidateOrderKey ==
  /\ op = "none"
  /\ op' = "validateOrderKey"
  /\ \E res \in {validateOrderKey(a)} : err' = res
  /\ UNCHANGED <<a, b, j, jitterRange, n, key, keys, rv,
                 rangeMin, rangeMax, drawn, distance>>

\* incrementInt(a)
CallIncrementInt ==
  /\ op = "none"
  /\ op' = "incrementInt"
  /\ \E res \in {incrementInt(a)} :
       key' = res.key /\ err' = res.err
  /\ UNCHANGED <<a, b, j, jitterRange, n, keys, rv,
                 rangeMin, rangeMax, drawn, distance>>

\* decrementInt(a)
CallDecrementInt ==
  /\ op = "none"
  /\ op' = "decrementInt"
  /\ \E res \in {decrementInt(a)} :
       key' = res.key /\ err' = res.err
  /\ UNCHANGED <<a, b, j, jitterRange, n, keys, rv,
                 rangeMin, rangeMax, drawn, distance>>

NextCodec ==
  \/ CallValidateOrderKey
  \/ CallIncrementInt
  \/ CallDecrementInt

SpecCodec == InitCodec /\ [][NextCodec]_vars

\* ------------------------------------------------------------------------
\* Calls of Float64Approx
\* ------------------------------------------------------------------------

\* the digits of the keys given to Float64Approx: '0', '1', 'V', 'z'
FloatDigits == {ChZero, ChOne, DigitAt(31), ChLowZ}

\* their integer parts: heads 'Y', 'Z', 'a', 'b' with every such digit
FloatInts ==
  {<<h>> \o d : h \in {ChUpZ, ChLowA}, d \in [1 .. 1 -> FloatDigits]}
  \cup {<<h>> \o d : h \in {DigitAt(34), DigitAt(37)},
                     d \in [1 .. 2 -> FloatDigits]}

\* the keys given to Float64Approx: keys of these integer parts, and "",
\* "!", "a!", smallestInt
FloatKeys ==
  {ip \o f : ip \in FloatInts,
             f \in Fracs \cup {<<DigitAt(31)>>, <<ChZero, DigitAt(31)>>}}
  \cup {<<>>, <<33>>, <<ChLowA, 33>>, smallestInt}

InitFloat ==
  /\ a \in FloatKeys
  /\ b = <<>>
  /\ op = "none"
  /\ j = "NoJitter"
  /\ jitterRange = 0
  /\ n = 0
  /\ key = <<>>
  /\ keys = <<>>
  /\ rv = 0
  /\ rangeMin = 0
  /\ rangeMax = 0
  /\ drawn = 0
  /\ distance = 0
  /\ err = "nil"

\* Float64Approx(a)
CallFloat64Approx ==
  /\ op = "none"
  /\ op' = "Float64Approx"
  /\ \E res \in {Float64Approx(a)} :
       rv' = res.rv /\ err' = res.err
  /\ UNCHANGED <<a, b, j, jitterRange, n, key, keys,
                 rangeMin, rangeMax, drawn, distance>>

NextFloat == CallFloat64Approx

SpecFloat == InitFloat /\ [][NextFloat]_vars

\* ------------------------------------------------------------------------
\* Calls of IntnRange
\* ------------------------------------------------------------------------

\* the smallest and the largest int
MinInt == -(2 ^ (IntBits - 1))
MaxInt == (2 ^ (IntBits - 1)) - 1

\* the values passed as min and max: the ends of int and numbers around 0
RangeEnds == {MinInt, MinInt + 1, -2, -1, 0, 1, 2, 5, MaxInt - 1, MaxInt}

InitIntn ==
  /\ a = <<>>
  /\ b = <<>>
  /\ op = "none"
  /\ j = "NoJitter"
  /\ jitterRange = 0
  /\ n = 0
  /\ key = <<>>
  /\ keys = <<>>
  /\ rv = 0
  /\ rangeMin \in RangeEnds
  /\ rangeMax \in RangeEnds
  /\ drawn = 0
  /\ distance = 0
  /\ err = "nil"

\* src.IntnRange(rangeMin, rangeMax) returns
CallIntnRange ==
  /\ op = "none"
  /\ \E src \in Sources :
       \E v \in IntnRange(src, rangeMin, rangeMax) :
         /\ op' = "IntnRange"
         /\ j' = src
         /\ drawn' = v
  /\ UNCHANGED <<a, b, jitterRange, n, key, keys, rv, rangeMin, rangeMax,
                 distance, err>>

\* src.IntnRange(rangeMin, rangeMax) panics in rand.Intn
CallIntnRangePanic ==
  /\ op = "none"
  /\ \E src \in Sources :
       /\ IntnRange(src, rangeMin, rangeMax) = {}
       /\ op' = "IntnRange"
       /\ j' = src
       /\ err' = "panic"
  /\ UNCHANGED <<a, b, jitterRange, n, key, keys, rv, rangeMin, rangeMax,
                 drawn, distance>>

NextIntn ==
  \/ CallIntnRange
  \/ CallIntnRangePanic

SpecIntn == InitIntn /\ [][NextIntn]_vars

\* ------------------------------------------------------------------------
\* Vocabulary of the properties
\* ------------------------------------------------------------------------

\* every byte of s is one of the 62 digits
IsBase62(s) == \A i \in 1 .. Len(s) : Index(s[i]) # -1

\* x is a bound KeyBetween accepts: empty, or accepted by validateOrderKey
ValidBound(x) == x = <<>> \/ validateOrderKey(x) = "nil"

\* the bounds passed are valid, and a < b when both are given
ValidBounds ==
  /\ ValidBound(a)
  /\ ValidBound(b)
  /\ (a # <<>> /\ b # <<>>) => StrLess(a, b)

\* the bounds passed are strings over the alphabet
Base62Bounds == IsBase62(a) /\ IsBase62(b)

\* m lies strictly between the bounds passed (an empty bound is no bound)
Between(m) ==
  /\ a # <<>> => StrLess(a, m)
  /\ b # <<>> => StrLess(m, b)

\* the fractional part of a key k that starts with a letter
fracOf(k) == Drop(k, getIntLen(k[1]).len)

\* the result the call left in the state
Returned == [key |-> key, err |-> err]

\* a and b are fractional parts midpoint is specified for
MidpointPre ==
  /\ Base62Bounds
  /\ ~HasSuffixZero(a)
  /\ ~HasSuffixZero(b)
  /\ b = <<>> \/ StrLess(a, b)

\* a and b first differ at a position both have, by exactly two digit values
GapOfTwo ==
  \E p \in 1 .. Min(Len(a), Len(b)) :
    /\ \A i \in 1 .. (p - 1) : a[i] = b[i]
    /\ Index(b[p]) - Index(a[p]) = 2

\* ------------------------------------------------------------------------
\* Properties
\* ------------------------------------------------------------------------

C2_ReturnedKeyValid ==
  (op = "KeyBetween" /\ ValidBounds /\ Base62Bounds /\ err = "nil")
    => validateOrderKey(key) = "nil"

\* C3: KeyBetween never returns the reserved smallestInt, for any valid
\* bounds (over the alphabet).
C3_NeverSmallestInt ==
  (op = "KeyBetween" /\ ValidBounds /\ Base62Bounds /\ err = "nil")
    => key # smallestInt

\* C4: midpoint of base-62 fractional parts without a trailing '0', a < b or
\* b empty, returns a non-empty string without a trailing '0'; and the
\* fractional part of a key KeyBetween returns never ends in '0'.
C4_NoTrailingZero ==
  /\ (op = "midpoint" /\ MidpointPre)
       => (err = "nil" /\ key # <<>> /\ ~HasSuffixZero(key))
  /\ (op = "KeyBetween" /\ ValidBounds /\ Base62Bounds /\ err = "nil")
       => ~HasSuffixZero(fracOf(key))

\* C4: midpoint of two non-empty fractional parts returned a string longer
\* than both (it walked down a, or kept a common prefix)
C4_Witness ==
  /\ op = "midpoint" /\ MidpointPre /\ err = "nil"
  /\ a # <<>> /\ b # <<>>
  /\ Len(key) > Len(a) /\ Len(key) > Len(b)

\* C5: for a source whose draws are in range, every jitterRange >= 0 and
\* valid bounds, the key KeyBetweenJitter returns is strictly between them.
C5_JitterOrdered ==
  (op = "KeyBetweenJitter" /\ j = "RandJitter" /\ ValidBounds
     /\ Base62Bounds /\ err = "nil")
    => Between(key)

\* C6: for a source whose draws are in range, every key KeyBetweenJitter
\* returns on valid bounds passes validateOrderKey and has no trailing '0'
\* (read here of its fractional part, the weakest reading).
C6_JitterKeyValid ==
  (op = "KeyBetweenJitter" /\ j = "RandJitter" /\ ValidBounds
     /\ Base62Bounds /\ err = "nil")
    => (validateOrderKey(key) = "nil" /\ ~HasSuffixZero(fracOf(key)))

\* C7: KeyBetweenJitter with jitterRange 0 returns what KeyBetween returns,
\* key or error, for every source whose draws are in range.
C7_ZeroRangeIsKeyBetween ==
  (op = "KeyBetweenJitter" /\ j = "RandJitter" /\ jitterRange = 0)
    => Returned = KeyBetween(a, b)

\* C8: KeyBetweenJitter with the NoJitter source returns what KeyBetween
\* returns, for all valid bounds and every jitterRange >= 0.
C8_NoJitterIsKeyBetween ==
  (op = "KeyBetweenJitter" /\ j = "NoJitter" /\ ValidBounds /\ Base62Bounds)
    => Returned = KeyBetween(a, b)

\* C9: when the first differing digits of a and b are two apart, so that one
\* digit lies between them, midpointJitter and KeyBetweenJitter return one
\* and the same output for every source, jitterRange and draws.
C9_GapOfTwoDeterministic ==
  /\ (op = "midpointJitter" /\ GapOfTwo)
       => \A src \in Sources, r \in 0 .. MaxJitterRange :
            midpointJitter(a, b, src, r) = {Returned}
  /\ (op = "KeyBetweenJitter" /\ GapOfTwo)
       => \A src \in Sources, r \in 0 .. MaxJitterRange :
            KeyBetweenJitter(a, b, src, r) = {Returned}

\* C9: KeyBetweenJitter, with a drawing source and a positive jitterRange,
\* returned a key between two keys of one integer part whose fractional
\* parts first differ by two
C9_Witness ==
  /\ op = "KeyBetweenJitter" /\ GapOfTwo /\ ValidBounds /\ Base62Bounds
  /\ j = "RandJitter" /\ jitterRange > 0 /\ err = "nil"
  /\ getIntPart(a) = getIntPart(b)
  /\ Between(key)

\* C10: for n >= 1 and valid bounds, NKeysBetween returns no error and
\* exactly n keys, strictly increasing, each strictly between the bounds.
C10_NKeysOrdered ==
  (op = "NKeysBetween" /\ n >= 1 /\ ValidBounds /\ Base62Bounds)
    => /\ err = "nil"
       /\ Len(keys) = n
       /\ \A i \in 1 .. Len(keys) : Between(keys[i])
       /\ \A i \in 1 .. (Len(keys) - 1) : StrLess(keys[i], keys[i + 1])

\* C11: for n >= 1, valid non-empty bounds a < b, every jitterRange and an
\* in-range source, NKeysBetweenJitter returns no error and exactly n keys,
\* strictly increasing, each strictly between a and b.
C11_NKeysJitterOrdered ==
  (op = "NKeysBetweenJitter" /\ n >= 1 /\ j = "RandJitter"
     /\ a # <<>> /\ b # <<>> /\ ValidBounds /\ Base62Bounds)
    => /\ err = "nil"
       /\ Len(keys) = n
       /\ \A i \in 1 .. Len(keys) : Between(keys[i])
       /\ \A i \in 1 .. (Len(keys) - 1) : StrLess(keys[i], keys[i + 1])

\* C12: KeyBetween(a, b) with both bounds non-empty and accepted by
\* validateOrderKey and a >= b (a = b included) returns the error
\* "<a> >= <b>" and the empty string; no key comes with an error.
C12_RangeError ==
  /\ (op = "KeyBetween" /\ a # <<>> /\ b # <<>>
        /\ validateOrderKey(a) = "nil" /\ validateOrderKey(b) = "nil"
        /\ ~StrLess(a, b))
       => (err = Str(a) \o " >= " \o Str(b) /\ key = <<>>)
  /\ (op = "KeyBetween" /\ err # "nil") => key = <<>>

\* C12: KeyBetween was called with twice the same valid key and returned
\* the range error
C12_Witness ==
  /\ op = "KeyBetween" /\ a # <<>> /\ a = b
  /\ validateOrderKey(a) = "nil"
  /\ err = Str(a) \o " >= " \o Str(a)
  /\ key = <<>>

\* the first byte of a is a letter A-Z or a-z
LetterHead ==
  \/ (a[1] >= ChUpA /\ a[1] <= ChUpZ)
  \/ (a[1] >= ChLowA /\ a[1] <= ChLowZ)

\* the length of the integer part the head of a declares
DeclaredLen ==
  IF a[1] >= ChLowA THEN a[1] - ChLowA + 2 ELSE ChUpZ - a[1] + 2

\* C13: validateOrderKey of a non-empty key succeeds if and only if its
\* first byte is a letter, it is at least as long as that head declares, it
\* is not smallestInt and what follows the integer part does not end in
\* '0'; a head that is no letter gives the "invalid order key head" error
\* (followed by the head), every other violation the "invalid order key"
\* error (followed by the key).
C13_ValidateOrderKey ==
  op = "validateOrderKey" =>
    /\ err = "nil" <=>
         /\ LetterHead
         /\ Len(a) >= DeclaredLen
         /\ a # smallestInt
         /\ ~HasSuffixZero(Drop(a, DeclaredLen))
    /\ ~LetterHead => err = "invalid order key head: " \o byteString(a[1])
    /\ (LetterHead /\ err # "nil") => err = "invalid order key: " \o Str(a)

\* C13: validateOrderKey was called on smallestInt and rejected it
C13_Witness ==
  /\ op = "validateOrderKey"
  /\ a = smallestInt
  /\ err = "invalid order key: " \o Str(smallestInt)

\* the number the digits ds write in base 62, the first digit the most
\* significant, added to 62 times acc
RECURSIVE Numeral(_, _)
Numeral(ds, acc) ==
  IF ds = <<>> THEN acc
  ELSE Numeral(Tail(ds), acc * Base + Index(ds[1]))

\* the number of units of s * (sum of the integer digits d_i * 62^i + sum of
\* the fractional digits d_i / 62^(i+1)) for the key k: the digits after
\* the head, read as one numeral with Len(frac) digits after the point
KeyValue(k) ==
  (IF k[1] >= ChUpA /\ k[1] <= ChUpZ THEN -1 ELSE 1)
    * Numeral(Tail(k), 0) * Pow(Base, FracScale - Len(fracOf(k)))

\* C14: for a valid key over the alphabet Float64Approx returns
\* s * (sum of d_i * 62^i over the digits of the integer part after the
\* head + sum of d_i / 62^(i+1) over the fractional digits), s = -1 exactly
\* for an uppercase head; for an integer-only key that is an integer:
\* "a0" -> 0, "a1" -> 1, "b10" -> 62, "Z1" -> -1, "Y10" -> -62.
C14_Float64Approx ==
  (op = "Float64Approx" /\ a # <<>> /\ validateOrderKey(a) = "nil"
     /\ IsBase62(a))
    => /\ err = "nil"
       /\ rv = KeyValue(a)
       /\ fracOf(a) = <<>> => rv % Units(1) = 0
       /\ a = zero => rv = 0
       /\ a = <<ChLowA, ChOne>> => rv = Units(1)
       /\ a = <<DigitAt(37), ChOne, ChZero>> => rv = Units(62)
       /\ a = <<ChUpZ, ChOne>> => rv = Units(-1)
       /\ a = <<DigitAt(34), ChOne, ChZero>> => rv = Units(-62)

\* C14: Float64Approx was called on "Y10" and returned -62
C14_Witness ==
  /\ op = "Float64Approx"
  /\ a = <<DigitAt(34), ChOne, ChZero>>
  /\ err = "nil"
  /\ rv = Units(-62)

\* C15: RandJitter.IntnRange(min, max) returns a value v, min <= v <= max,
\* whenever min <= max, and returns min when max <= min.
C15_IntnRangeInRange ==
  (op = "IntnRange" /\ j = "RandJitter")
    => /\ err = "nil"
       /\ rangeMin <= rangeMax => (rangeMin <= drawn /\ drawn <= rangeMax)
       /\ rangeMax <= rangeMin => drawn = rangeMin

\* x is a well-formed integer part: a letter head, the length it declares,
\* digits of the alphabet
WellFormed(x) ==
  /\ x # <<>>
  /\ getIntLen(x[1]).err = "nil"
  /\ Len(x) = getIntLen(x[1]).len
  /\ IsBase62(Tail(x))

\* the well-formed integer parts of heads 'Z' and 'a' (one digit) and 'Y'
\* and 'b' (two digits)
ShortInts ==
  {<<h>> \o d : h \in {ChUpZ, ChLowA}, d \in [1 .. 1 -> 48 .. 122]}
  \cup {<<h>> \o d : h \in {DigitAt(34), DigitAt(37)},
                     d \in [1 .. 2 -> 48 .. 122]}

\* well-formed integer parts of the longest heads 'A', 'B', 'y', 'z': one
\* digit repeated, and any last digit
LongInts ==
  {IntPart(h, f, l) : h \in {ChUpA, DigitAt(11), DigitAt(60), ChLowZ},
                      f \in {ChZero, ChOne, DigitAt(60), ChLowZ},
                      l \in 48 .. 122}

\* the well-formed integer parts x is compared with
WellFormedInts == {x \in ShortInts \cup LongInts : WellFormed(x)}

\* no well-formed integer part lies strictly between x and y
Adjacent(x, y) ==
  \A w \in WellFormedInts : ~(StrLess(x, w) /\ StrLess(w, y))

C17_DecrementMirror ==
  /\ (op = "decrementInt" /\ WellFormed(a))
       => /\ err = "nil"
          /\ key = <<>> => a = smallestInt
          /\ key # <<>> =>
               /\ WellFormed(key) /\ StrLess(key, a) /\ Adjacent(key, a)
               /\ incrementInt(key) = Ok(a)
  /\ (op = "incrementInt" /\ WellFormed(a) /\ key # <<>>)
       => decrementInt(key) = Ok(a)

\* C17: decrementInt("b00") returned "az"
C17_Witness ==
  /\ op = "decrementInt"
  /\ a = <<DigitAt(37), ChZero, ChZero>>
  /\ key = <<ChLowA, ChLowZ>>
  /\ err = "nil"

\* C18: when incrementInt carries out of every digit, head 'Z' gives "a0",
\* a head h in a..y gives h+1 and '0's, one byte longer, a head h in A..Y
\* gives h+1 and '0's, one byte shorter; decrementInt mirrors it when it
\* borrows out of every digit: "a0" gives "Zz", heads b..z give h-1 and
\* 'z's, one byte shorter, heads B..Z give h-1 and 'z's, one byte longer;
\* the result always has the length its head declares.
C18_CarryOutShapes ==
  /\ (op = "incrementInt" /\ WellFormed(a)
        /\ Tail(a) = Repeat(ChLowZ, Len(a) - 1))
       => /\ a[1] = ChUpZ => key = zero
          /\ (a[1] >= ChLowA /\ a[1] < ChLowZ)
               => key = <<a[1] + 1>> \o Repeat(ChZero, Len(a))
          /\ (a[1] >= ChUpA /\ a[1] < ChUpZ)
               => key = <<a[1] + 1>> \o Repeat(ChZero, Len(a) - 2)
          /\ key # <<>> => validateInt(key) = "nil"
  /\ (op = "decrementInt" /\ WellFormed(a)
        /\ Tail(a) = Repeat(ChZero, Len(a) - 1))
       => /\ a = zero => key = <<ChUpZ, ChLowZ>>
          /\ (a[1] > ChLowA /\ a[1] <= ChLowZ)
               => key = <<a[1] - 1>> \o Repeat(ChLowZ, Len(a) - 2)
          /\ (a[1] > ChUpA /\ a[1] <= ChUpZ)
               => key = <<a[1] - 1>> \o Repeat(ChLowZ, Len(a))
          /\ key # <<>> => validateInt(key) = "nil"

\* C18: incrementInt("Yzz") returned "Z0"
C18_Witness ==
  /\ op = "incrementInt"
  /\ a = <<DigitAt(34), ChLowZ, ChLowZ>>
  /\ key = <<ChUpZ, ChZero>>
  /\ err = "nil"

\* the first digit of lo, below every digit when m has no lower bound left
\* (lo is off, or empty: every non-empty m is above it)
firstAbove(lo, loOn) == IF loOn /\ lo # <<>> THEN Index(lo[1]) ELSE -1

\* the first digit of hi, above every digit when m has no upper bound left
firstBelow(hi, hiOn) == IF hiOn /\ hi # <<>> THEN Index(hi[1]) ELSE Base

\* some string m over the alphabet, of 1 to maxLen digits, not ending in
\* '0', has lo < m (if loOn) and m < hi (if hiOn); lv and hv are the first
\* digits of the bounds
RECURSIVE Fits(_, _, _, _, _)
FitsFrom(lo, hi, maxLen, lv, hv) ==
  \* the first digit of m is strictly between lv and hv: m is that digit
  \* alone, or, the digit being '0', that digit and any other
  \/ Max(lv + 1, IF maxLen > 1 THEN 0 ELSE 1) < hv
  \* the first digit of m is that of hi, above that of lo: m is that digit
  \* alone, hi being longer, or the rest of m is below the rest of hi
  \/ /\ lv < hv /\ hv < Base
     /\ \/ hv # 0 /\ Tail(hi) # <<>>
        \/ Fits(<<>>, FALSE, Tail(hi), TRUE, maxLen - 1)
  \* the first digit of m is that of lo, below that of hi: the rest of m is
  \* above the rest of lo
  \/ /\ lv < hv /\ lv >= 0
     /\ Fits(Tail(lo), TRUE, <<>>, FALSE, maxLen - 1)
  \* the first digit of m is that of both bounds
  \/ /\ lv = hv
     /\ Fits(Tail(lo), TRUE, Tail(hi), TRUE, maxLen - 1)

Fits(lo, loOn, hi, hiOn, maxLen) ==
  /\ maxLen >= 1
  /\ ~(hiOn /\ hi = <<>>)
  /\ FitsFrom(lo, hi, maxLen, firstAbove(lo, loOn), firstBelow(hi, hiOn))

\* C19: midpoint(a, b) is of minimal length: for fractional parts a, b over
\* the alphabet, not ending in '0', a < b (b empty: unbounded above), no
\* string over the alphabet that does not end in '0' and lies strictly
\* between a and b is shorter than midpoint(a, b).
C19_MidpointShortest ==
  (op = "midpoint" /\ MidpointPre)
    => /\ err = "nil"
       /\ ~Fits(a, TRUE, b, b # <<>>, Len(key) - 1)

\* C19: midpoint of two non-empty fractional parts returned a string of
\* three digits or more; strings of its length fit between a and b
C19_Witness ==
  /\ op = "midpoint" /\ MidpointPre /\ err = "nil"
  /\ a # <<>> /\ b # <<>>
  /\ Len(key) >= 3
  /\ Fits(a, TRUE, b, TRUE, Len(key))

\* C20: with exactly one bound empty KeyBetween returns an integer-only key
\* unless the integer part of the other bound is at the extreme:
\* KeyBetween("", b) returns intPart(b) when b has a fractional part and
\* decrementInt(b) when b is integer-only (intPart(b) not smallestInt);
\* KeyBetween(a, "") returns incrementInt(intPart(a)), unless intPart(a) is
\* the largest, z...z, and then intPart(a) + midpoint(frac(a), "");
\* KeyBetween("", "") returns "a0".
C20_OneBoundEmpty ==
  (op = "KeyBetween" /\ ValidBounds) =>
    /\ (a = <<>> /\ b = <<>>) => Returned = Ok(zero)
    /\ (a = <<>> /\ b # <<>> /\ getIntPart(b).key # smallestInt) =>
         /\ fracOf(b) # <<>> => Returned = Ok(getIntPart(b).key)
         /\ fracOf(b) = <<>> => Returned = decrementInt(b)
         /\ err = "nil" /\ fracOf(key) = <<>>
    /\ (a # <<>> /\ b = <<>> /\ getIntPart(a).key # largestInt) =>
         /\ Returned = incrementInt(getIntPart(a).key)
         /\ err = "nil" /\ fracOf(key) = <<>>
    /\ (a # <<>> /\ b = <<>> /\ getIntPart(a).key = largestInt) =>
         Returned = Cat(largestInt, midpoint(fracOf(a), <<>>))

\* C20: KeyBetween(a, "") dropped the fractional part of a and returned
\* the integer part after a's
C20_Witness ==
  /\ op = "KeyBetween" /\ ValidBounds /\ Base62Bounds
  /\ a # <<>> /\ b = <<>>
  /\ fracOf(a) # <<>>
  /\ err = "nil"
  /\ key = incrementInt(getIntPart(a).key).key
  /\ Len(key) < Len(a)


\* C21: for valid non-empty a < b, KeyBetween returns
\* intPart(a) + midpoint(frac(a), frac(b)) when the integer parts are equal;
\* otherwise incrementInt(intPart(a)) when that is byte-wise below b, and
\* intPart(a) + midpoint(frac(a), "") when it is not.
C21_BothBounds ==
  (op = "KeyBetween" /\ ValidBounds /\ a # <<>> /\ b # <<>>) =>
    /\ getIntPart(a).key = getIntPart(b).key =>
         Returned = Cat(getIntPart(a).key, midpoint(fracOf(a), fracOf(b)))
    /\ ( /\ getIntPart(a).key # getIntPart(b).key
         /\ StrLess(incrementInt(getIntPart(a).key).key, b) ) =>
         Returned = incrementInt(getIntPart(a).key)
    /\ ( /\ getIntPart(a).key # getIntPart(b).key
         /\ ~StrLess(incrementInt(getIntPart(a).key).key, b) ) =>
         Returned = Cat(getIntPart(a).key, midpoint(fracOf(a), <<>>))

\* C21: the integer part after a's was not below b, and KeyBetween extended
\* the fractional part of a
C21_Witness ==
  /\ op = "KeyBetween" /\ ValidBounds /\ Base62Bounds
  /\ a # <<>> /\ b # <<>>
  /\ getIntPart(a).key # getIntPart(b).key
  /\ ~StrLess(incrementInt(getIntPart(a).key).key, b)
  /\ err = "nil"
  /\ Take(key, Len(getIntPart(a).key)) = getIntPart(a).key
  /\ Len(key) > Len(a)


\* C22: NKeysBetween with n >= 2 builds its result by chaining when a side
\* is unbounded: with b empty, result[0] = KeyBetween(a, "") and
\* result[i+1] = KeyBetween(result[i], ""); with only a empty,
\* result[n-1] = KeyBetween("", b) and result[i] = KeyBetween("", result[i+1]);
\* with both bounds given, result[n / 2] = KeyBetween(a, b).
\* (Sequences start at 1 here: result[i] is keys[i + 1].)
C22_NKeysChained ==
  (op = "NKeysBetween" /\ n >= 2 /\ err = "nil") =>
    /\ Len(keys) = n
    /\ b = <<>> =>
         /\ Ok(keys[1]) = KeyBetween(a, <<>>)
         /\ \A i \in 1 .. (n - 1) : Ok(keys[i + 1]) = KeyBetween(keys[i], <<>>)
    /\ (a = <<>> /\ b # <<>>) =>
         /\ Ok(keys[n]) = KeyBetween(<<>>, b)
         /\ \A i \in 1 .. (n - 1) : Ok(keys[i]) = KeyBetween(<<>>, keys[i + 1])
    /\ (a # <<>> /\ b # <<>>) =>
         Ok(keys[(n \div 2) + 1]) = KeyBetween(a, b)

\* C22: a chain of three keys built downward from b and reversed
C22_Witness ==
  /\ op = "NKeysBetween" /\ n = 3 /\ err = "nil"
  /\ a = <<>> /\ b # <<>>
  /\ Len(keys) = 3
  /\ Ok(keys[3]) = KeyBetween(<<>>, b)
  /\ StrLess(keys[1], keys[2]) /\ StrLess(keys[2], keys[3])


\* the call is in the adjacent-digit case at once: no common prefix, first
\* digits one apart, b longer than one character
AdjacentCase ==
  /\ b # <<>>
  /\ commonPrefix(a, b) = 0
  /\ digitOfB(b) - digitOfA(a) = 1
  /\ Len(b) > 1

\* C23: in the adjacent-digit case midpointJitter returns b's first
\* character alone, or followed by exactly one digit that is strictly below
\* b[1] and is not '0'; hence the result is strictly less than b and does
\* not end in '0', for every in-range jitter source and jitterRange >= 0.
C23_AdjacentBelowB ==
  (op = "midpointJitter" /\ j = "RandJitter" /\ MidpointPre /\ AdjacentCase) =>
    /\ err = "nil"
    /\ \/ key = <<b[1]>>
       \/ /\ Len(key) = 2
          /\ key[1] = b[1]
          /\ Index(key[2]) > 0
          /\ Index(key[2]) < Index(b[2])
    /\ StrLess(key, b)
    /\ ~HasSuffixZero(key)


\* the length of the common prefix midpointJitter strips from a and b
prefixLen == IF b = <<>> THEN 0 ELSE commonPrefix(a, b)

\* digitA and digitB of the call that follows the common prefix
restDigitA == digitOfA(Drop(a, Min(prefixLen, Len(a))))
restDigitB == digitOfB(Drop(b, prefixLen))

\* the distance of x and y
Dist(x, y) == IF x >= y THEN x - y ELSE y - x

\* C24: in the interior-room case of midpointJitter (digitB - digitA > 1)
\* the single digit returned lies strictly between digitA and digitB and
\* differs from the deterministic midpoint digit
\* round(0.5 * (digitA + digitB)) by at most jitterRange, for every in-range
\* jitter source and jitterRange >= 0.
C24_InteriorWindow ==
  (op = "midpointJitter" /\ Base62Bounds /\ restDigitB - restDigitA > 1) =>
    /\ err = "nil"
    /\ Len(key) = prefixLen + 1
    /\ Take(key, prefixLen) = Take(b, prefixLen)
    /\ Index(key[prefixLen + 1]) > restDigitA
    /\ Index(key[prefixLen + 1]) < restDigitB
    /\ Dist(Index(key[prefixLen + 1]), RoundHalf(restDigitA + restDigitB))
         <= jitterRange

\* C24: a drawing source moved the digit off the deterministic midpoint
C24_Witness ==
  /\ op = "midpointJitter" /\ MidpointPre /\ restDigitB - restDigitA > 1
  /\ j = "RandJitter" /\ jitterRange = MaxJitterRange /\ err = "nil"
  /\ Dist(Index(key[prefixLen + 1]), RoundHalf(restDigitA + restDigitB))
       = jitterRange


\* C25: KeyBetween is total on valid input: for all a, b over the base-62
\* alphabet, each empty or accepted by validateOrderKey, a < b when both are
\* non-empty, it returns a key and no error; "range overflow" and
\* "range underflow" are never produced.
C25_KeyBetweenTotal ==
  (op = "KeyBetween" /\ ValidBounds /\ Base62Bounds) =>
    /\ err = "nil"
    /\ key # <<>>
    /\ err # "range overflow"
    /\ err # "range underflow"

\* C25: KeyBetween returned a key above a key of the largest integer part
C25_Witness ==
  /\ op = "KeyBetween" /\ ValidBounds /\ Base62Bounds /\ err = "nil"
  /\ a # <<>> /\ b = <<>>
  /\ getIntPart(a).key = largestInt
  /\ StrLess(a, key)


\* the fractional part of a bound, empty for an empty bound
fracOrEmpty(k) == IF k = <<>> THEN <<>> ELSE fracOf(k)

\* C26: for valid a, b not both empty the key KeyBetween(a, b) returns is at
\* most one character longer than the longer argument, and each midpoint
\* call KeyBetween can make on their fractional parts nests at most
\* max(len(a), len(b)) + 1 deep (indeed at most one more than the longer
\* fractional part).
C26_OneCharLonger ==
  (op = "KeyBetween" /\ ValidBounds /\ ~(a = <<>> /\ b = <<>>)) =>
    /\ Len(key) <= Max(Len(a), Len(b)) + 1
    /\ midpointDepth(fracOrEmpty(a), fracOrEmpty(b))
         <= Max(Len(fracOrEmpty(a)), Len(fracOrEmpty(b))) + 1
    /\ midpointDepth(fracOrEmpty(a), <<>>) <= Len(fracOrEmpty(a)) + 1
    /\ midpointDepth(<<>>, fracOrEmpty(b)) <= Len(fracOrEmpty(b)) + 1
    /\ Max(Len(fracOrEmpty(a)), Len(fracOrEmpty(b))) <= Max(Len(a), Len(b))

\* C26: KeyBetween returned a key one character longer than both bounds,
\* from a midpoint call nested as deep as its longer argument plus one
C26_Witness ==
  /\ op = "KeyBetween" /\ ValidBounds /\ Base62Bounds /\ err = "nil"
  /\ a # <<>> /\ b # <<>>
  /\ getIntPart(a).key = getIntPart(b).key
  /\ Len(key) = Max(Len(a), Len(b)) + 1
  /\ midpointDepth(fracOf(a), fracOf(b))
       = Max(Len(fracOf(a)), Len(fracOf(b))) + 1
  /\ midpointDepth(fracOf(a), fracOf(b)) >= 3


\* the call is one of NKeysBetween or NKeysBetweenJitter
NKeysCall == op = "NKeysBetween" \/ op = "NKeysBetweenJitter"

\* C27: NKeysBetween(a, b, 0) and NKeysBetweenJitter(a, b, 0, ...) return an
\* empty sequence and no error for every a and b, invalid keys and a >= b
\* included; with n >= 1 bounds that fail the validation are reported.
C27_ZeroKeysUnvalidated ==
  /\ (NKeysCall /\ n = 0) => (keys = <<>> /\ err = "nil")
  /\ (NKeysCall /\ n >= 1 /\ validateBounds(a, b) # "nil") =>
       (keys = <<>> /\ err = validateBounds(a, b))

\* C27: NKeysBetweenJitter returned no keys and no error for n = 0 and
\* bounds that the validation rejects
C27_Witness ==
  /\ op = "NKeysBetweenJitter" /\ n = 0
  /\ a # <<>> /\ b # <<>>
  /\ validateOrderKey(a) = "nil" /\ validateOrderKey(b) = "nil"
  /\ ~StrLess(a, b)
  /\ keys = <<>> /\ err = "nil"


\* k is a valid key over the alphabet with an empty fractional part
IntegerOnly(k) ==
  /\ k # <<>>
  /\ validateOrderKey(k) = "nil"
  /\ IsBase62(k)
  /\ fracOf(k) = <<>>

\* C28: Float64Approx is order-preserving on integer-only keys: for valid
\* keys k1 < k2 (byte-wise) with empty fractional parts,
\* Float64Approx(k1) < Float64Approx(k2); in particular
\* Float64Approx(incrementInt(k)) > Float64Approx(k) whenever
\* incrementInt(k) does not overflow.
C28_FloatOrderPreserving ==
  (op = "Float64Approx" /\ IntegerOnly(a)) =>
    /\ err = "nil"
    /\ \A k2 \in FloatKeys :
         (IntegerOnly(k2) /\ StrLess(a, k2)) => rv < Float64Approx(k2).rv
    /\ incrementInt(a).key # <<>> =>
         rv < Float64Approx(incrementInt(a).key).rv


\* some character of k after its head is outside the alphabet
DigitOutside(k) == \E i \in 2 .. Len(k) : Index(k[i]) = -1

\* C29: KeyBetween returns an error and the empty key, rather than crashing
\* or returning a key, whenever a non-empty argument contains a character
\* outside the alphabet 0-9A-Za-z after its head.
C29_OutsideAlphabetRejected ==
  (op = "KeyBetween" /\ (DigitOutside(a) \/ DigitOutside(b))) =>
    /\ err # "nil"
    /\ err # "panic"
    /\ key = <<>>


\* the key the chain of KeyAfterJitter stood at before its step i
prevKey(i) == IF i = 1 THEN a ELSE keys[i - 1]

\* C30: for a valid key, KeyAfterJitter(key, d, j, r) returns key unchanged
\* when d = 0; when d > 0 it applies KeyBetweenJitter(prev, "") d times and,
\* if no error is returned, every intermediate key and the result are
\* strictly greater than the previous one; when d < 0 it applies
\* KeyBetweenJitter("", prev) |d| times and the result is strictly smaller
\* than key; KeyBeforeJitter(key, d, j, r) equals
\* KeyAfterJitter(key, -d, j, r).
C30_KeyAfterMoves ==
  /\ (op = "KeyAfterJitter" /\ a # <<>> /\ validateOrderKey(a) = "nil"
        /\ IsBase62(a)) =>
       /\ distance = 0 => Returned = Ok(a)
       /\ (distance > 0 /\ err = "nil") =>
            /\ Len(keys) = distance
            /\ key = keys[distance]
            /\ \A i \in 1 .. distance :
                 /\ Ok(keys[i]) \in
                      KeyBetweenJitterBypass(prevKey(i), <<>>, j, jitterRange)
                 /\ StrLess(prevKey(i), keys[i])
            /\ StrLess(a, key)
       /\ (distance < 0 /\ err = "nil") =>
            /\ Len(keys) = 0 - distance
            /\ key = keys[0 - distance]
            /\ \A i \in 1 .. (0 - distance) :
                 Ok(keys[i]) \in
                   KeyBetweenJitterBypass(<<>>, prevKey(i), j, jitterRange)
            /\ StrLess(key, a)
  /\ op = "KeyBeforeJitter" =>
       [key |-> key, err |-> err, keys |-> keys]
         \in KeyAfterJitter(a, wrapInt(0 - distance), j, jitterRange)

====
